---- MODULE Spec2Model ----
(***************************************************************************)
(* Model of the Top News API news service: the listing scrapers            *)
(* (fetchTheDailyStarWithColly, fetchCNNWithColly), the enrichment pass    *)
(* (updateMissingImageURLs / updateArticleDetails) and the HTTP handlers   *)
(* GetAllNews and GetNewsBySource.                                         *)
(*                                                                         *)
(* Two builds of the service exist in the repository:                      *)
(*   "main"    - package main (src/unnamed/part_000): The Daily Star only, *)
(*               enrichment by updateMissingImageURLs/scrapeImageFromURL;  *)
(*   "handler" - package handler (listing in src/README.md, lines 196-721, *)
(*               the package src/api/router.go builds its routes on):      *)
(*               The Daily Star and CNN, enrichment by                     *)
(*               updateArticleDetails/scrapeArticleDetailsFromURL.         *)
(*                                                                         *)
(* Strings are sequences of tokens.  Titles and descriptions are sequences *)
(* of one-character strings.  URLs are sequences in which every "/", " "   *)
(* and "," is a token of its own and every other token is a run of         *)
(* characters containing none of them (a scheme such as "https:", a host,  *)
(* a path segment), so that Split, Contains, TrimPrefix and HasPrefix on   *)
(* these separators are computed exactly as on the Go strings.             *)
(* NewsArticle.PublishedAt (time.Now()) is not modelled.                   *)
(***************************************************************************)
EXTENDS Integers, Sequences, FiniteSets, TLC

\* ------------------------------------------------------------------------
\* Bounds of the model
\* ------------------------------------------------------------------------

\* number of candidate containers the OnHTML callback visits in one crawl
MaxContainers == 2

\* ------------------------------------------------------------------------
\* Program constants
\* ------------------------------------------------------------------------

DailyStarCap == 10

CNNCap == 15

MinTitleLen == 10

DescCap == 200

MinParagraphLen == 50

\* ------------------------------------------------------------------------
\* Go strings package, on token sequences
\* ------------------------------------------------------------------------

Rep(c, n) == [i \in 1..n |-> c]

WhiteSpace == {" ", "\n", "\t", "\r"}

RECURSIVE TrimLeft(_)
TrimLeft(s) ==
    IF s # <<>> /\ Head(s) \in WhiteSpace THEN TrimLeft(Tail(s)) ELSE s

RECURSIVE TrimRight(_)
TrimRight(s) ==
    IF s # <<>> /\ s[Len(s)] \in WhiteSpace
    THEN TrimRight(SubSeq(s, 1, Len(s) - 1))
    ELSE s

\* strings.TrimSpace
TrimSpace(s) == TrimRight(TrimLeft(s))

\* strings.ReplaceAll(s, old, new) for one-token old and new
ReplaceAll(s, old, new) ==
    [i \in 1..Len(s) |-> IF s[i] = old THEN new ELSE s[i]]

\* strings.Index(s, c) for a one-token c: 0-based position, -1 when absent
Index(s, c) ==
    IF \E i \in 1..Len(s) : s[i] = c
    THEN (CHOOSE i \in 1..Len(s) :
             s[i] = c /\ \A j \in 1..(i - 1) : s[j] # c) - 1
    ELSE -1

\* the Go slice expression s[:n]
Prefix(s, n) == SubSeq(s, 1, n)

\* strings.HasPrefix
HasPrefix(s, p) == Len(p) <= Len(s) /\ SubSeq(s, 1, Len(p)) = p

\* strings.TrimPrefix
TrimPrefix(s, p) ==
    IF HasPrefix(s, p) THEN SubSeq(s, Len(p) + 1, Len(s)) ELSE s

\* strings.Contains
Contains(s, sub) ==
    \E i \in 0..(Len(s) - Len(sub)) : SubSeq(s, i + 1, i + Len(sub)) = sub

\* strings.Split(s, sep) for a one-token sep: always at least one segment
RECURSIVE Split(_, _)
Split(s, sep) ==
    LET i == Index(s, sep)
    IN  IF i = -1
        THEN <<s>>
        ELSE <<Prefix(s, i)>> \o Split(SubSeq(s, i + 2, Len(s)), sep)

\* strings.Fields: the maximal runs of non-space tokens
RECURSIVE Fields(_)
Fields(s) ==
    LET t == TrimLeft(s)
    IN  IF t = <<>>
        THEN <<>>
        ELSE LET n == IF \E i \in 1..Len(t) : t[i] \in WhiteSpace
                      THEN (CHOOSE i \in 1..Len(t) :
                               t[i] \in WhiteSpace
                               /\ \A j \in 1..(i - 1) : t[j] \notin WhiteSpace) - 1
                      ELSE Len(t)
             IN  <<Prefix(t, n)>> \o Fields(SubSeq(t, n + 1, Len(t)))

\* strings.Join(words, sep) for a one-token sep
RECURSIVE Join(_, _)
Join(words, sep) ==
    IF words = <<>> THEN <<>>
    ELSE IF Len(words) = 1 THEN Head(words)
    ELSE Head(words) \o <<sep>> \o Join(Tail(words), sep)

\* ------------------------------------------------------------------------
\* Title clean-up of the Daily Star scraper
\* ------------------------------------------------------------------------

\* "Clean up title - remove extra whitespace and newlines"
NormalizeWhitespace(title) ==
    Join(Fields(ReplaceAll(ReplaceAll(ReplaceAll(title, "\n", " "),
                                      "\r", " "), "\t", " ")), " ")

\* if idx := strings.Index(title, c); idx != -1 { title = TrimSpace(title[:idx]) }
CutAt(title, c) ==
    LET idx == Index(title, c)
    IN  IF idx # -1 THEN TrimSpace(Prefix(title, idx)) ELSE title

\* "Truncate at first comma or period to get only the main headline"
TruncateHeadline(title) == CutAt(CutAt(title, ","), ".")

CleanTitle(title) == TruncateHeadline(NormalizeWhitespace(title))

\* ------------------------------------------------------------------------
\* URLs
\* ------------------------------------------------------------------------

Schemes == {"https:", "http:"}

\* a URL carrying scheme and host: scheme "//" host ...
IsAbsolute(u) ==
    /\ Len(u) >= 4
    /\ u[1] \in Schemes /\ u[2] = "/" /\ u[3] = "/"
    /\ u[4] \notin {"/", " ", ","}

\* url.URL.String() percent-encodes a space of the path
EscapeSpaces(u) == [i \in 1..Len(u) |-> IF u[i] = " " THEN "%20" ELSE u[i]]

\* colly Request.AbsoluteURL(u) on the request URL base = scheme "//" host "/":
\* "" for a fragment-only reference, else base.Parse(u).String()
AbsoluteURL(base, u) ==
    IF u # <<>> /\ Head(u) = "#" THEN <<>>
    ELSE IF IsAbsolute(u) THEN EscapeSpaces(u)
    ELSE IF HasPrefix(u, <<"/", "/">>) THEN <<base[1]>> \o EscapeSpaces(u)
    ELSE IF HasPrefix(u, <<"/">>) THEN SubSeq(base, 1, 4) \o EscapeSpaces(u)
    ELSE base \o EscapeSpaces(u)

DailyStarURL == <<"https:", "/", "/", "www.thedailystar.net", "/">>

CNNURL == <<"https:", "/", "/", "edition.cnn.com", "/">>

\* ------------------------------------------------------------------------
\* Source registry (NewNewsService)
\* ------------------------------------------------------------------------

Builds == {"main", "handler"}

\* keys of ns.sources
SourceNames(build) ==
    IF build = "main" THEN {"thedailystar"} ELSE {"thedailystar", "cnn"}

\* ------------------------------------------------------------------------
\* NewsArticle
\* ------------------------------------------------------------------------

\* fmt.Sprintf("<prefix>_%d", articleID)
FormatID(prefix, n) == [prefix |-> prefix, seq |-> n]

NewsArticle(id, title, description, imageURL, url, source) ==
    [id |-> id, title |-> title, description |-> description,
     imageURL |-> imageURL, url |-> url, source |-> source]

\* ------------------------------------------------------------------------
\* fetchTheDailyStarWithColly: the OnHTML callback
\* ------------------------------------------------------------------------

TitleSelectors == <<"h1", "h2", "h3", "h4", ".title", ".headline">>

ImgAttrs ==
    <<"src", "data-src", "data-lazy-src", "data-srcset", "data-original",
      "data-image", "data-lazy">>

SectionKeywords ==
    {"news", "bangladesh", "world", "business", "sports", "entertainment"}

\* for _, selector := range titleSelectors { title = TrimSpace(ChildText(selector));
\*     if title != "" && len(title) >= 10 { break } }
RECURSIVE SelectTitleFrom(_, _)
SelectTitleFrom(e, k) ==
    LET title == TrimSpace(e.text[TitleSelectors[k]])
    IN  IF (title # <<>> /\ Len(title) >= MinTitleLen) \/ k = Len(TitleSelectors)
        THEN title
        ELSE SelectTitleFrom(e, k + 1)

SelectTitle(e) == SelectTitleFrom(e, 1)

\* pathSegments := strings.Split(strings.TrimPrefix(link, "https://www.thedailystar.net"), "/")
PathSegments(link) == Split(TrimPrefix(link, SubSeq(DailyStarURL, 1, 4)), "/")

\* "Filter out category links": len(pathSegments) <= 3 || last segment == ""
IsCategoryLink(link) ==
    LET pathSegments == PathSegments(link)
    IN  Len(pathSegments) <= 3 \/ pathSegments[Len(pathSegments)] = <<>>

\* "Skip if not a news article link": none of the strings.Contains tests holds
HasSectionKeyword(link) ==
    \E kw \in SectionKeywords : Contains(link, <<"/", kw, "/">>)

IsDuplicateURL_Never(articles, link) == FALSE

\* "Skip duplicates": for _, article := range articles { if article.URL == link
IsDuplicateURL(articles, link) ==
    \E k \in 1..Len(articles) : articles[k].url = link

\* for _, attr := range [...] { imageURL = e.ChildAttr("img", attr); if imageURL != "" { break } }
RECURSIVE FirstImgAttrFrom(_, _)
FirstImgAttrFrom(e, k) ==
    IF e.img[ImgAttrs[k]] # <<>> \/ k = Len(ImgAttrs)
    THEN e.img[ImgAttrs[k]]
    ELSE FirstImgAttrFrom(e, k + 1)

\* "Extract image URL"
ListingImageURL(base, e) ==
    LET fromImg == FirstImgAttrFrom(e, 1)
        raw     == IF fromImg = <<>> THEN e.pictureSourceSrcset ELSE fromImg
        abs     == AbsoluteURL(base, raw)
    IN  IF raw = <<>> THEN <<>>
        ELSE IF Contains(abs, <<",">>)
             THEN TrimSpace(Split(Split(abs, ",")[1], " ")[1])
             ELSE abs

CapDescription_Uncapped(description) == description

\* description[:200] + "..." when longer than 200
CapDescription(description) ==
    IF description # <<>> /\ Len(description) > DescCap
    THEN Prefix(description, DescCap) \o <<".", ".", ".">>
    ELSE description

\* "Extract description"
ListingDescription(e) == CapDescription(TrimSpace(e.p))

CapReached_OffByOne(list, cap) == Len(list) > cap

\* "Limit to N articles": if len(articles) >= N { return }
CapReached(list, cap) == Len(list) >= cap

\* Where the callback returns on container e: at one of its early returns, or
\* at the end after appending ("accept").  st = [articles, articleID] are the
\* variables the closure captures.
DailyStarVerdict(st, e) ==
    LET link == AbsoluteURL(DailyStarURL, e.href)
    IN  IF CapReached(st.articles, DailyStarCap) THEN "cap"
        ELSE IF SelectTitle(e) = <<>> THEN "no-title"
        ELSE IF e.href = <<>> THEN "no-link"
        ELSE IF IsCategoryLink(link) THEN "category-link"
        ELSE IF ~HasSectionKeyword(link) THEN "no-keyword"
        ELSE IF IsDuplicateURL(st.articles, link) THEN "duplicate-url"
        ELSE "accept"

\* The callback on one container e: the captured variables on return.
DailyStarOnHTML(st, e) ==
    IF DailyStarVerdict(st, e) # "accept" THEN st
    ELSE [articles |->
             Append(st.articles,
                    NewsArticle(FormatID("dailystar", st.articleID),
                                CleanTitle(SelectTitle(e)),
                                ListingDescription(e),
                                ListingImageURL(DailyStarURL, e),
                                AbsoluteURL(DailyStarURL, e.href),
                                "thedailystar")),
          articleID |-> st.articleID + 1]

\* ------------------------------------------------------------------------
\* fetchCNNWithColly: the OnHTML callback (handler build)
\* ------------------------------------------------------------------------

\* title = ChildText("span[data-editable='headline']"); fallback
\* ChildText(".container__headline-text"); then TrimSpace
CNNTitle(e) ==
    TrimSpace(IF e.headline = <<>> THEN e.headlineText ELSE e.headline)

\* "Skip duplicates by Title"
IsDuplicateTitle(articles, title) ==
    \E k \in 1..Len(articles) : articles[k].title = title

CNNVerdict(st, e) ==
    LET link  == AbsoluteURL(CNNURL, e.href)
        title == CNNTitle(e)
    IN  IF CapReached(st.articles, CNNCap) THEN "cap"
        ELSE IF IsDuplicateURL(st.articles, link) THEN "duplicate-url"
        ELSE IF title = <<>> \/ Len(title) < MinTitleLen THEN "no-title"
        ELSE IF IsDuplicateTitle(st.articles, title) THEN "duplicate-title"
        ELSE "accept"

CNNOnHTML(st, e) ==
    IF CNNVerdict(st, e) # "accept" THEN st
    ELSE [articles |->
             Append(st.articles,
                    NewsArticle(FormatID("cnn", st.articleID),
                                CNNTitle(e), <<>>, <<>>,
                                AbsoluteURL(CNNURL, e.href), "cnn")),
          articleID |-> st.articleID + 1]

\* where the callback of a source returns
Verdict(src, st, e) ==
    IF src = "cnn" THEN CNNVerdict(st, e) ELSE DailyStarVerdict(st, e)

\* the callback registered by the scraper of a source
OnHTML(src, st, e) ==
    IF src = "cnn" THEN CNNOnHTML(st, e) ELSE DailyStarOnHTML(st, e)

\* ------------------------------------------------------------------------
\* Detail pages: scrapeImageFromURL (main build) and
\* scrapeArticleDetailsFromURL (handler build)
\* ------------------------------------------------------------------------

\* An attribute of one matched element: s.Attr(name) returns (val, exists).
Attr(val) == [exists |-> TRUE, val |-> val]

NoAttr == [exists |-> FALSE, val |-> <<>>]

\* doc.Find(sel).Each(func(..) { if v, exists := s.Attr(a); exists && cur == "" { cur = v } })
\* over the matched elements in document order, starting from cur
RECURSIVE EachAttr(_, _)
EachAttr(elems, cur) ==
    IF elems = <<>> THEN cur
    ELSE EachAttr(Tail(elems),
                  IF Head(elems).exists /\ cur = <<>> THEN Head(elems).val ELSE cur)

\* the same loop with strings.TrimSpace(content) assigned
RECURSIVE EachTrimmedAttr(_, _)
EachTrimmedAttr(elems, cur) ==
    IF elems = <<>> THEN cur
    ELSE EachTrimmedAttr(Tail(elems),
                         IF Head(elems).exists /\ cur = <<>>
                         THEN TrimSpace(Head(elems).val) ELSE cur)

\* if pText := strings.TrimSpace(s.Text()); len(pText) > 50 && description == ""
RECURSIVE EachParagraph(_, _)
EachParagraph(paras, cur) ==
    IF paras = <<>> THEN cur
    ELSE EachParagraph(Tail(paras),
                       IF Len(TrimSpace(Head(paras))) > MinParagraphLen /\ cur = <<>>
                       THEN TrimSpace(Head(paras)) ELSE cur)

DetailImageURL_OgFirst(doc) ==
    LET a == EachAttr(doc.pictureImg, <<>>)
        b == IF a = <<>> THEN EachAttr(doc.ogImage, a) ELSE a
        c == IF b = <<>> THEN EachAttr(doc.gallery, b) ELSE b
    IN  IF c = <<>> THEN EachAttr(doc.bodyImg, c) ELSE c

\* The image chain of both scrapers: picture img data-srcset, span.lg-gallery
\* data-src, og:image content, article-body img src; each step runs only while
\* imageURL is still "".
DetailImageURL(doc) ==
    LET a == EachAttr(doc.pictureImg, <<>>)
        b == IF a = <<>> THEN EachAttr(doc.gallery, a) ELSE a
        c == IF b = <<>> THEN EachAttr(doc.ogImage, b) ELSE b
    IN  IF c = <<>> THEN EachAttr(doc.bodyImg, c) ELSE c

\* "--- Scrape Description ---"
DetailDescription(doc) ==
    LET a == EachTrimmedAttr(doc.ogDescription, <<>>)
        b == IF a = <<>> THEN EachTrimmedAttr(doc.metaDescription, a) ELSE a
        c == IF b = <<>> THEN EachParagraph(doc.paragraphs, b) ELSE b
    IN  CapDescription(c)

\* What the GET of an article page yields: page = [ok |-> FALSE] when the
\* request fails, times out, answers a status other than 200 or does not
\* parse; [ok |-> TRUE, doc |-> ...] otherwise.
FetchFailed == [ok |-> FALSE]

Fetched(doc) == [ok |-> TRUE, doc |-> doc]

\* scrapeImageFromURL: (imageURL, err); "no image found on page" is an error
ScrapeImageFromURL(page) ==
    IF ~page.ok THEN [err |-> TRUE, imageURL |-> <<>>, description |-> <<>>]
    ELSE IF DetailImageURL(page.doc) = <<>>
    THEN [err |-> TRUE, imageURL |-> <<>>, description |-> <<>>]
    ELSE [err |-> FALSE, imageURL |-> DetailImageURL(page.doc),
          description |-> <<>>]

\* scrapeArticleDetailsFromURL: (imageURL, description, err)
ScrapeArticleDetailsFromURL(page) ==
    IF ~page.ok THEN [err |-> TRUE, imageURL |-> <<>>, description |-> <<>>]
    ELSE [err |-> FALSE, imageURL |-> DetailImageURL(page.doc),
          description |-> DetailDescription(page.doc)]

ScrapeDetails(build, page) ==
    IF build = "main" THEN ScrapeImageFromURL(page)
    ELSE ScrapeArticleDetailsFromURL(page)

\* ------------------------------------------------------------------------
\* Enrichment pass: updateMissingImageURLs (main build) and
\* updateArticleDetails (handler build), one loop iteration
\* ------------------------------------------------------------------------

NeedsDetails_Always(build, article) == TRUE

\* the condition under which the loop body fetches the article's page
NeedsDetails(build, article) ==
    IF build = "main" THEN article.imageURL = <<>>
    ELSE article.imageURL = <<>> \/ article.description = <<>>

MergeField_Overwrite(old, new) == IF new # <<>> THEN new ELSE old

\* if article.X == "" && x != "" { article.X = x }
MergeField(old, new) == IF old = <<>> /\ new # <<>> THEN new ELSE old

\* the assignments after a successful scrape
MergeDetails(build, article, r) ==
    IF build = "main"
    THEN [article EXCEPT !.imageURL = r.imageURL]
    ELSE [article EXCEPT !.imageURL = MergeField(article.imageURL, r.imageURL),
                         !.description = MergeField(article.description,
                                                    r.description)]

\* the whole loop body on article `article` when its page fetch yields `page`
EnrichArticle(build, article, page) ==
    IF ~NeedsDetails(build, article) THEN article
    ELSE IF ScrapeDetails(build, page).err THEN article
    ELSE MergeDetails(build, article, ScrapeDetails(build, page))

\* the whole pass; pages[k] is what the fetch of article k's page yields
UpdateArticles(build, articles, pages) ==
    [k \in 1..Len(articles) |-> EnrichArticle(build, articles[k], pages[k])]

\* ------------------------------------------------------------------------
\* Inputs: texts, hrefs and image attribute values found in the markup
\* ------------------------------------------------------------------------

\* 'Flood story from Dhaka'
TextFlood ==
    <<"F", "l", "o", "o", "d", " ", "s", "t", "o", "r", "y", " ", "f", "r",
      "o", "m", " ", "D", "h", "a", "k", "a">>

\* 'Breaking: city hall, flooded after storm.'
TextBreaking ==
    <<"B", "r", "e", "a", "k", "i", "n", "g", ":", " ", "c", "i", "t", "y",
      " ", "h", "a", "l", "l", ",", " ", "f", "l", "o", "o", "d", "e", "d",
      " ", "a", "f", "t", "e", "r", " ", "s", "t", "o", "r", "m", ".">>

\* 'Sports'
TextSports ==
    <<"S", "p", "o", "r", "t", "s">>

\* 'Rain, again and again'
TextRain ==
    <<"R", "a", "i", "n", ",", " ", "a", "g", "a", "i", "n", " ", "a", "n",
      "d", " ", "a", "g", "a", "i", "n">>

\* ', late edition news'
TextLeadingComma ==
    <<",", " ", "l", "a", "t", "e", " ", "e", "d", "i", "t", "i", "o", "n",
      " ", "n", "e", "w", "s">>

\* '  Dhaka \n\t metro\r opens  '
TextSpaced ==
    <<" ", " ", "D", "h", "a", "k", "a", " ", "\n", "\t", " ", "m", "e",
      "t", "r", "o", "\r", " ", "o", "p", "e", "n", "s", " ", " ">>

\* 'U.S. markets rally'
TextAbbrev ==
    <<"U", ".", "S", ".", " ", "m", "a", "r", "k", "e", "t", "s", " ", "r",
      "a", "l", "l", "y">>

\* 'Cricket final tonight'
TextCricket ==
    <<"C", "r", "i", "c", "k", "e", "t", " ", "f", "i", "n", "a", "l", " ",
      "t", "o", "n", "i", "g", "h", "t">>

\* 'Waters rise'
TextSummary ==
    <<"W", "a", "t", "e", "r", "s", " ", "r", "i", "s", "e">>

\* ' Officials respond '
TextOgDesc ==
    <<" ", "O", "f", "f", "i", "c", "i", "a", "l", "s", " ", "r", "e", "s",
      "p", "o", "n", "d", " ">>

\* 'Storm hits east coast'
TextStorm ==
    <<"S", "t", "o", "r", "m", " ", "h", "i", "t", "s", " ", "e", "a", "s",
      "t", " ", "c", "o", "a", "s", "t">>

\* 'Markets slide on rate fears'
TextMarkets ==
    <<"M", "a", "r", "k", "e", "t", "s", " ", "s", "l", "i", "d", "e", " ",
      "o", "n", " ", "r", "a", "t", "e", " ", "f", "e", "a", "r", "s">>

\* a text longer than the description cap, with surrounding whitespace
TextLong == <<" ">> \o Rep("d", DescCap + 4) \o <<"\n">>

\* a paragraph longer than the paragraph floor
TextParagraph == Rep("p", MinParagraphLen + 1)

\* /news/bangladesh/2024/flood-story
HrefStory ==
    <<"/", "news", "/", "bangladesh", "/", "2024", "/", "flood-story">>

\* https://www.thedailystar.net/news/bangladesh/2024/flood-story
HrefStoryAbs ==
    <<"https:", "/", "/", "www.thedailystar.net", "/", "news", "/",
      "bangladesh", "/", "2024", "/", "flood-story">>

\* /news
HrefSection ==
    <<"/", "news">>

\* /news/bangladesh
HrefCategory ==
    <<"/", "news", "/", "bangladesh">>

\* /news/bangladesh/2024/
HrefTrailing ==
    <<"/", "news", "/", "bangladesh", "/", "2024", "/">>

\* /about
HrefAbout ==
    <<"/", "about">>

\* /opinion/views/column-one
HrefOpinion ==
    <<"/", "opinion", "/", "views", "/", "column-one">>

\* /sports/cricket/final-report
HrefSportsStory ==
    <<"/", "sports", "/", "cricket", "/", "final-report">>

\* entertainment/tv/new-drama
HrefRelative ==
    <<"entertainment", "/", "tv", "/", "new-drama">>

\* https://thedailystar.net/news/bangladesh
HrefBareHost ==
    <<"https:", "/", "/", "thedailystar.net", "/", "news", "/",
      "bangladesh">>

\* https://example.com/world/briefing
HrefOtherHost ==
    <<"https:", "/", "/", "example.com", "/", "world", "/", "briefing">>

\* //www.thedailystar.net/world/asia/talks-resume
HrefProtocolRelative ==
    <<"/", "/", "www.thedailystar.net", "/", "world", "/", "asia", "/",
      "talks-resume">>

\* #top
HrefFragment ==
    <<"#", "top">>

\* /business/economy/budget-day
HrefBudget ==
    <<"/", "business", "/", "economy", "/", "budget-day">>

\* /world/asia/summit-ends
HrefSummit ==
    <<"/", "world", "/", "asia", "/", "summit-ends">>

\* https://cdn.thedailystar.net/img/a.jpg
ImgAbsolute ==
    <<"https:", "/", "/", "cdn.thedailystar.net", "/", "img", "/", "a.jpg">>

\* /sites/img/b.jpg
ImgRelative ==
    <<"/", "sites", "/", "img", "/", "b.jpg">>

\* /sites/img/s1.jpg 1x, /sites/img/s2.jpg 2x
ImgSrcset ==
    <<"/", "sites", "/", "img", "/", "s1.jpg", " ", "1x", ",", " ", "/",
      "sites", "/", "img", "/", "s2.jpg", " ", "2x">>

\* https://cdn.example.com/og/c.jpg
ImgOg ==
    <<"https:", "/", "/", "cdn.example.com", "/", "og", "/", "c.jpg">>

\* /2024/06/21/weather/storm/index.html
HrefCNNStorm ==
    <<"/", "2024", "/", "06", "/", "21", "/", "weather", "/", "storm", "/",
      "index.html">>

\* https://edition.cnn.com/2024/06/21/business/markets/index.html
HrefCNNMarkets ==
    <<"https:", "/", "/", "edition.cnn.com", "/", "2024", "/", "06", "/",
      "21", "/", "business", "/", "markets", "/", "index.html">>

\* /2024/06/21/us/city-hall/index.html
HrefCNNCity ==
    <<"/", "2024", "/", "06", "/", "21", "/", "us", "/", "city-hall", "/",
      "index.html">>

\* ------------------------------------------------------------------------
\* Inputs: candidate containers of a listing page
\* ------------------------------------------------------------------------

ImgAttrNames == {ImgAttrs[k] : k \in 1..Len(ImgAttrs)}

TitleSelectorNames == {TitleSelectors[k] : k \in 1..Len(TitleSelectors)}

\* attributes of the first img element of a container
Img(src, dataSrcset) ==
    [a \in ImgAttrNames |->
        IF a = "src" THEN src ELSE IF a = "data-srcset" THEN dataSrcset ELSE <<>>]

\* a Daily Star container: e.ChildText per title selector, e.ChildAttr("a", "href"),
\* the img attributes, e.ChildAttr("picture source", "srcset") and the
\* e.ChildText of the description selectors
DSContainer(h2, headline, href, img, pictureSourceSrcset, p) ==
    [text |-> [s \in TitleSelectorNames |->
                  IF s = "h2" THEN h2 ELSE IF s = ".headline" THEN headline ELSE <<>>],
     href |-> href, img |-> img, pictureSourceSrcset |-> pictureSourceSrcset,
     p |-> p]

\* containers that differ in their title texts
DSTitleContainers ==
    {DSContainer(h2, <<>>, HrefStory, Img(ImgAbsolute, <<>>), <<>>, TextSummary) :
        h2 \in {TextFlood, TextBreaking, TextSports, <<>>, TextRain,
                TextLeadingComma, TextSpaced, TextAbbrev}}
    \cup
    {DSContainer(TextSports, TextCricket, HrefStory, Img(ImgAbsolute, <<>>), <<>>,
                 TextSummary),
     DSContainer(<<>>, TextSports, HrefStory, Img(ImgAbsolute, <<>>), <<>>,
                 TextSummary)}

\* containers that differ in their link
DSLinkContainers ==
    {DSContainer(TextFlood, <<>>, href, Img(ImgAbsolute, <<>>), <<>>, TextSummary) :
        href \in {<<>>, HrefStoryAbs, HrefSection, HrefCategory, HrefTrailing,
                  HrefAbout, HrefOpinion, HrefSportsStory, HrefRelative,
                  HrefBareHost, HrefOtherHost, HrefProtocolRelative,
                  HrefFragment}}

\* containers that differ in their image markup
DSImageContainers ==
    {DSContainer(TextCricket, <<>>, HrefBudget, Img(ImgRelative, <<>>), <<>>,
                 TextSummary),
     DSContainer(TextCricket, <<>>, HrefBudget, Img(<<>>, ImgSrcset), <<>>,
                 TextSummary),
     DSContainer(TextCricket, <<>>, HrefBudget, Img(ImgRelative, ImgSrcset), <<>>,
                 TextSummary),
     DSContainer(TextCricket, <<>>, HrefBudget, Img(<<>>, <<>>), ImgSrcset,
                 TextSummary),
     DSContainer(TextCricket, <<>>, HrefBudget, Img(<<>>, <<>>), <<>>,
                 TextSummary)}

\* containers that differ in their description text
DSDescriptionContainers ==
    {DSContainer(TextCricket, <<>>, HrefSummit, Img(ImgAbsolute, <<>>), <<>>, p) :
        p \in {<<>>, TextLong}}

DSContainers ==
    DSTitleContainers \cup DSLinkContainers \cup DSImageContainers
        \cup DSDescriptionContainers

\* a CNN container a[data-link-type='article']: e.Attr("href") and the
\* e.ChildText of the two headline selectors
CNNContainer(href, headline, headlineText) ==
    [href |-> href, headline |-> headline, headlineText |-> headlineText]

CNNContainers ==
    {CNNContainer(HrefCNNStorm, TextStorm, <<>>),
     CNNContainer(HrefCNNStorm, TextMarkets, <<>>),
     CNNContainer(HrefCNNMarkets, TextStorm, <<>>),
     CNNContainer(HrefCNNMarkets, <<>>, TextMarkets),
     CNNContainer(HrefCNNCity, TextBreaking, <<>>),
     CNNContainer(HrefCNNCity, TextSports, <<>>),
     CNNContainer(HrefCNNCity, <<>>, <<>>),
     CNNContainer(<<>>, TextFlood, <<>>)}

Containers(src) == IF src = "cnn" THEN CNNContainers ELSE DSContainers

\* ------------------------------------------------------------------------
\* Inputs: what the fetch of an article's own page yields
\* ------------------------------------------------------------------------

EmptyDoc ==
    [pictureImg |-> <<>>, gallery |-> <<>>, ogImage |-> <<>>, bodyImg |-> <<>>,
     ogDescription |-> <<>>, metaDescription |-> <<>>, paragraphs |-> <<>>]

\* a picture with a responsive candidate list, and an og:description
DocPicture ==
    [EmptyDoc EXCEPT !.pictureImg = <<NoAttr, Attr(ImgSrcset)>>,
                     !.ogImage = <<Attr(ImgOg)>>,
                     !.ogDescription = <<Attr(TextOgDesc)>>]

\* an og:image, and a long meta description
DocOpenGraph ==
    [EmptyDoc EXCEPT !.ogImage = <<Attr(ImgOg)>>,
                     !.metaDescription = <<Attr(TextLong)>>]

\* an image in the article body, and body paragraphs
DocBody ==
    [EmptyDoc EXCEPT !.bodyImg = <<Attr(<<>>), Attr(ImgRelative)>>,
                     !.paragraphs = <<TextSummary, TextParagraph>>]

DetailPages ==
    {FetchFailed, Fetched(EmptyDoc), Fetched(DocPicture), Fetched(DocOpenGraph),
     Fetched(DocBody)}

\* ------------------------------------------------------------------------
\* State
\* ------------------------------------------------------------------------

VARIABLES
    build,       \* which build of the service runs
    \* one run of a listing scraper (fetch<Source>WithColly)
    src,         \* the source being scraped
    pc,          \* Idle, Crawling, Enriching, Sleeping, Completed, Failed
    articles,    \* the articles slice
    articleID,   \* "Counter for article IDs"
    visited,     \* number of containers the callback has been called on
    verdict,     \* where the last callback returned
    idx,         \* loop variable i of the enrichment pass (0-based)
    listed,      \* the slice as the enrichment pass received it
    origin,      \* origin[k]: the container articles[k] was extracted from
    log,         \* the fetches and sleeps of the enrichment pass, in order
    seen,        \* the containers the callback has been called on, in order
    entry,       \* what c.Visit of the entry page returned: pending, ok, error
    fetched,     \* per detail fetch: the loop index, the page, the scrape result
    \* one request to GetAllNews or GetNewsBySource
    request,     \* the request being served, or NoRequest
    active,      \* Source.Active per registered source
    hpc,         \* handler: idle, launching, collecting, done
    remaining,   \* sources the launch loop has not come to yet
    task,        \* per source goroutine: none, running, sending, sent, done
    news,        \* per source goroutine: what fetchNewsFromSource returned
    wg,          \* sync.WaitGroup counter
    allNews,     \* buffered channel contents
    closed,      \* whether close(allNews) has run
    closer,      \* the wg.Wait/close goroutine: none, waiting, done
    allArticles, \* the slice the collecting loop appends to
    response     \* the JSON response written, or NoResponse

scraperVars ==
    <<src, pc, articles, articleID, visited, verdict, idx, listed, origin,
      log, seen, entry, fetched>>

handlerVars ==
    <<request, active, hpc, remaining, task, news, wg, allNews, closed,
      closer, allArticles, response>>

vars == <<build, scraperVars, handlerVars>>

NoRequest == [op |-> "none"]

NoResponse == [status |-> 0]

NoNews == [err |-> FALSE, news |-> <<>>]

\* no request is being served
HandlerIdle ==
    /\ request = NoRequest
    /\ active = [s \in SourceNames(build) |-> TRUE]
    /\ hpc = "idle"
    /\ remaining = {}
    /\ task = [s \in SourceNames(build) |-> "none"]
    /\ news = [s \in SourceNames(build) |-> NoNews]
    /\ wg = 0
    /\ allNews = <<>>
    /\ closed = FALSE
    /\ closer = "none"
    /\ allArticles = <<>>
    /\ response = NoResponse

\* ------------------------------------------------------------------------
\* Specification Spec: one run of a listing scraper, step by step
\* ------------------------------------------------------------------------

Init ==
    /\ build \in Builds
    /\ src \in SourceNames(build)
    /\ pc = "Idle"
    /\ articles = <<>>
    /\ articleID = 0
    /\ visited = 0
    /\ verdict = "none"
    /\ idx = 0
    /\ listed = <<>>
    /\ origin = <<>>
    /\ log = <<>>
    /\ seen = <<>>
    /\ entry = "pending"
    /\ fetched = <<>>
    /\ HandlerIdle

VisitFails_Ignored ==
    /\ pc = "Idle"
    /\ pc' = "Crawling"
    /\ entry' = "error"
    /\ UNCHANGED <<build, src, articles, articleID, visited, verdict, idx, listed,
                   origin, log, seen, fetched, handlerVars>>

\* err := c.Visit(url) fails: return nil, fmt.Errorf("failed to visit: %v", err)
VisitFails ==
    /\ pc = "Idle"
    /\ pc' = "Failed"
    /\ entry' = "error"
    /\ UNCHANGED <<build, src, articles, articleID, visited, verdict, idx, listed,
                   origin, log, seen, fetched, handlerVars>>

\* c.Visit(url) fetches the entry page
VisitSucceeds ==
    /\ pc = "Idle"
    /\ pc' = "Crawling"
    /\ entry' = "ok"
    /\ UNCHANGED <<build, src, articles, articleID, visited, verdict, idx, listed,
                   origin, log, seen, fetched, handlerVars>>

\* colly calls the OnHTML callback on the next matching container
Callback ==
    /\ pc = "Crawling"
    /\ visited < MaxContainers
    /\ \E e \in Containers(src) :
         LET cur == [articles |-> articles, articleID |-> articleID]
             st  == OnHTML(src, cur, e)
         IN  /\ articles' = st.articles
             /\ articleID' = st.articleID
             /\ verdict' = Verdict(src, cur, e)
             /\ origin' = IF Verdict(src, cur, e) = "accept"
                          THEN Append(origin, e) ELSE origin
             /\ seen' = Append(seen, e)
    /\ visited' = visited + 1
    /\ UNCHANGED <<build, src, pc, idx, listed, log, entry, fetched,
                   handlerVars>>

\* c.Wait() returns; the enrichment pass is called on &articles
StartEnrichment ==
    /\ pc = "Crawling"
    /\ pc' = "Enriching"
    /\ listed' = articles
    /\ idx' = 0
    /\ UNCHANGED <<build, src, articles, articleID, visited, verdict, origin, log,
                   seen, entry, fetched, handlerVars>>

\* loop iteration on an article that needs nothing: no fetch
EnrichSkip ==
    /\ pc = "Enriching"
    /\ idx < Len(articles)
    /\ ~NeedsDetails(build, articles[idx + 1])
    /\ idx' = idx + 1
    /\ UNCHANGED <<build, src, pc, articles, articleID, visited, verdict, listed,
                   origin, log, seen, entry, fetched, handlerVars>>

\* one call of the scrape function in the loop body: iteration i fetched page
\* and the scrape returned r
FetchRecord(i, page, r) == [i |-> i, page |-> page, r |-> r]

\* loop iteration whose scrape returns err != nil: log.Printf, continue
EnrichFetchFails ==
    /\ pc = "Enriching"
    /\ idx < Len(articles)
    /\ NeedsDetails(build, articles[idx + 1])
    /\ \E page \in DetailPages :
         /\ ScrapeDetails(build, page).err
         /\ fetched' = Append(fetched,
                              FetchRecord(idx, page, ScrapeDetails(build, page)))
    /\ log' = Append(log, "fetch")
    /\ idx' = idx + 1
    /\ UNCHANGED <<build, src, pc, articles, articleID, visited, verdict, listed,
                   origin, seen, entry, handlerVars>>

\* loop iteration whose scrape succeeds: merge, then go on to time.Sleep
EnrichFetchSucceeds ==
    /\ pc = "Enriching"
    /\ idx < Len(articles)
    /\ NeedsDetails(build, articles[idx + 1])
    /\ \E page \in DetailPages :
         /\ ~ScrapeDetails(build, page).err
         /\ articles' = [articles EXCEPT ![idx + 1] =
                            MergeDetails(build, articles[idx + 1],
                                         ScrapeDetails(build, page))]
         /\ fetched' = Append(fetched,
                              FetchRecord(idx, page, ScrapeDetails(build, page)))
    /\ log' = Append(log, "fetch")
    /\ pc' = "Sleeping"
    /\ UNCHANGED <<build, src, articleID, visited, verdict, idx, listed, origin,
                   seen, entry, handlerVars>>

\* time.Sleep(1 * time.Second), then the next iteration
EnrichSleep ==
    /\ pc = "Sleeping"
    /\ log' = Append(log, "sleep")
    /\ idx' = idx + 1
    /\ pc' = "Enriching"
    /\ UNCHANGED <<build, src, articles, articleID, visited, verdict, listed, origin,
                   seen, entry, fetched, handlerVars>>

\* the loop ends: return articles, nil
Complete ==
    /\ pc = "Enriching"
    /\ idx = Len(articles)
    /\ pc' = "Completed"
    /\ UNCHANGED <<build, src, articles, articleID, visited, verdict, idx, listed,
                   origin, log, seen, entry, fetched, handlerVars>>

Next ==
    \/ VisitFails
    \/ VisitSucceeds
    \/ Callback
    \/ StartEnrichment
    \/ EnrichSkip
    \/ EnrichFetchFails
    \/ EnrichFetchSucceeds
    \/ EnrichSleep
    \/ Complete

Spec == Init /\ [][Next]_vars

\* ------------------------------------------------------------------------
\* Properties of a listing scraper run (checked under Spec)
\* ------------------------------------------------------------------------

\* the scraper has returned its article list
Returned == pc = "Completed"

\* C1: in a listing crawl of one source, whatever containers the callback
\* visits, no two articles of the list have the same url
UniqueURLs ==
    \A j, k \in 1..Len(articles) :
        j # k => articles[j].url # articles[k].url

\* a returned list whose last candidate was dropped as a duplicate url
UniqueURLsWitness ==
    /\ Returned
    /\ verdict = "duplicate-url"
    /\ Len(articles) >= 1

\* a pass over these pages, from the current list
PassOutcomes == [1..Len(articles) -> DetailPages]

FullyPopulated(list) ==
    \A k \in 1..Len(list) :
        list[k].imageURL # <<>> /\ list[k].description # <<>>

\* C4: during and after the enrichment pass every imageURL and description
\* that was non-empty when the pass began keeps its value; a pass over a
\* fully populated list changes nothing, and so does a second pass over the
\* returned list when it is fully populated
EnrichmentKeepsPopulatedFields ==
    pc \in {"Enriching", "Sleeping", "Completed"} =>
        /\ Len(articles) = Len(listed)
        /\ \A k \in 1..Len(listed) :
              /\ listed[k].imageURL # <<>> =>
                    articles[k].imageURL = listed[k].imageURL
              /\ listed[k].description # <<>> =>
                    articles[k].description = listed[k].description
        /\ FullyPopulated(listed) => articles = listed
        /\ (Returned /\ FullyPopulated(articles)) =>
              \A pages \in PassOutcomes :
                  UpdateArticles(build, articles, pages) = articles

\* a returned list in which a fetch filled the description of an article
\* whose image the listing had already set
EnrichmentKeepsPopulatedFieldsWitness ==
    /\ Returned
    /\ \E k \in 1..Len(articles) :
          /\ listed[k].imageURL # <<>>
          /\ listed[k].description = <<>>
          /\ articles[k].description # <<>>
          /\ articles[k].imageURL = listed[k].imageURL

\* C5: every enrichment fetch, failed or not, is followed by the delay before
\* the next fetch of the pass
DelayAfterEveryFetch ==
    \A k \in 1..(Len(log) - 1) :
        log[k] = "fetch" => log[k + 1] = "sleep"

\* C6: every article of the list has a title of at least 10 characters
TitleLengthFloor ==
    \A k \in 1..Len(articles) : Len(articles[k].title) >= MinTitleLen

\* C8: every stored imageURL is empty or an absolute URL
ImageURLAbsolute ==
    \A k \in 1..Len(articles) :
        articles[k].imageURL = <<>> \/ IsAbsolute(articles[k].imageURL)

\* the path of a link: what follows scheme and host
PathOf(link) == IF IsAbsolute(link) THEN SubSeq(link, 5, Len(link)) ELSE link

\* C9: every Daily Star article's link has a path of more than 3 segments
\* whose last segment is not empty and which contains a section keyword
ArticleLinkPath ==
    \A k \in 1..Len(articles) :
        articles[k].source = "thedailystar" =>
            LET path     == PathOf(articles[k].url)
                segments == Split(path, "/")
            IN  /\ Len(segments) > 3
                /\ segments[Len(segments)] # <<>>
                /\ \E kw \in SectionKeywords : Contains(path, <<"/", kw, "/">>)

\* the raw title text the scraper of a source takes from a container
RawTitle(source, e) ==
    IF source = "cnn"
    THEN (IF e.headline = <<>> THEN e.headlineText ELSE e.headline)
    ELSE SelectTitle(e)

\* a text cut before its first comma or period
CutAtFirstTerminator(text) ==
    IF \E n \in 1..Len(text) : text[n] \in {",", "."}
    THEN TrimSpace(SubSeq(text, 1,
             (CHOOSE n \in 1..Len(text) :
                 /\ text[n] \in {",", "."}
                 /\ \A m \in 1..(n - 1) : text[m] \notin {",", "."}) - 1))
    ELSE text

\* C10: every article of the list has a non-empty title, equal to the
\* whitespace-normalized raw title cut at its first comma or period
TitleIsCutHeadline ==
    \A k \in 1..Len(articles) :
        /\ articles[k].title # <<>>
        /\ articles[k].title =
               CutAtFirstTerminator(NormalizeWhitespace(
                   RawTitle(articles[k].source, origin[k])))
        /\ \A n \in 1..Len(articles[k].title) :
               articles[k].title[n] \notin {",", "."}

\* ------------------------------------------------------------------------
\* fetchNewsFromSource as one call
\* ------------------------------------------------------------------------

\* the callback applied to the containers of a page in document order
RECURSIVE CrawlFrom(_, _, _)
CrawlFrom(source, st, page) ==
    IF page = <<>> THEN st
    ELSE CrawlFrom(source, OnHTML(source, st, Head(page)), Tail(page))

\* fetch<Source>WithColly(url): in = [visitOk, page, details], where visitOk
\* tells whether c.Visit(url) succeeds, page is the listing page's containers
\* and details[k] is what the fetch of the k-th article's page yields
ScrapeListing(bld, source, in) ==
    IF ~in.visitOk THEN [err |-> TRUE, news |-> <<>>]
    ELSE LET st == CrawlFrom(source, [articles |-> <<>>, articleID |-> 0],
                             in.page)
         IN  [err |-> FALSE,
              news |-> UpdateArticles(bld, st.articles, in.details)]

\* fetchNewsFromSource(sourceName, url)
FetchNewsFromSource(bld, sourceName, in) ==
    IF sourceName = "thedailystar" THEN ScrapeListing(bld, sourceName, in)
    ELSE IF bld = "handler" /\ sourceName = "cnn"
    THEN ScrapeListing(bld, sourceName, in)
    ELSE [err |-> TRUE, news |-> <<>>]

\* ------------------------------------------------------------------------
\* Inputs of a request: what the sites serve while it is handled
\* ------------------------------------------------------------------------

\* two containers of a source's listing page that yield distinct articles
FirstContainer(source) ==
    IF source = "cnn" THEN CNNContainer(HrefCNNStorm, TextStorm, <<>>)
    ELSE DSContainer(TextFlood, <<>>, HrefStory, Img(ImgAbsolute, <<>>), <<>>,
                     TextSummary)

SecondContainer(source) ==
    IF source = "cnn" THEN CNNContainer(HrefCNNMarkets, <<>>, TextMarkets)
    ELSE DSContainer(TextCricket, <<>>, HrefBudget, Img(<<>>, <<>>), <<>>,
                     TextSummary)

ListingPages(source) ==
    {<<>>,
     <<FirstContainer(source)>>,
     <<FirstContainer(source), SecondContainer(source)>>,
     <<SecondContainer(source), FirstContainer(source)>>}

SiteInputs(source) ==
    {[visitOk |-> FALSE, page |-> <<>>, details |-> <<>>]}
    \cup
    {[visitOk |-> TRUE, page |-> page,
      details |-> [k \in 1..Len(page) |-> d]] :
        page \in ListingPages(source),
        d \in {FetchFailed, Fetched(DocOpenGraph)}}

\* a source id no build registers
UnknownSource == "bbc"

\* ------------------------------------------------------------------------
\* Responses (c.JSON)
\* ------------------------------------------------------------------------

\* NewsResponse with http.StatusOK
NewsResponse(data, source) ==
    [status |-> 200, success |-> TRUE, data |-> data, count |-> Len(data),
     source |-> source, error |-> ""]

\* ErrorResponse
ErrorResponse(status, error) ==
    [status |-> status, success |-> FALSE, data |-> <<>>, count |-> 0,
     source |-> "", error |-> error]

NewsBySourceResponse_Degrading(registry, sourceName, r) ==
    IF sourceName \notin DOMAIN registry
    THEN ErrorResponse(404, "source_not_found")
    ELSE IF ~registry[sourceName] THEN ErrorResponse(400, "source_inactive")
    ELSE NewsResponse(r.news, sourceName)

\* GetNewsBySource: the response for sourceName, r being what
\* fetchNewsFromSource returns when it is called
NewsBySourceResponse(registry, sourceName, r) ==
    IF sourceName \notin DOMAIN registry
    THEN ErrorResponse(404, "source_not_found")
    ELSE IF ~registry[sourceName] THEN ErrorResponse(400, "source_inactive")
    ELSE IF r.err THEN ErrorResponse(500, "fetch_error")
    ELSE NewsResponse(r.news, sourceName)

\* ------------------------------------------------------------------------
\* Specification SpecHandlers: one request to GetNewsBySource or GetAllNews
\* ------------------------------------------------------------------------

ScraperIdle ==
    /\ src = "thedailystar"
    /\ pc = "Idle"
    /\ articles = <<>>
    /\ articleID = 0
    /\ visited = 0
    /\ verdict = "none"
    /\ idx = 0
    /\ listed = <<>>
    /\ origin = <<>>
    /\ log = <<>>
    /\ seen = <<>>
    /\ entry = "pending"
    /\ fetched = <<>>

\* The registry NewNewsService builds has every source active; the Active
\* flag is configuration data both handlers test, so every setting is covered.
HandlersInit ==
    /\ build \in Builds
    /\ ScraperIdle
    /\ request = NoRequest
    /\ active \in [SourceNames(build) -> BOOLEAN]
    /\ hpc = "idle"
    /\ remaining = {}
    /\ task = [s \in SourceNames(build) |-> "none"]
    /\ news = [s \in SourceNames(build) |-> NoNews]
    /\ wg = 0
    /\ allNews = <<>>
    /\ closed = FALSE
    /\ closer = "none"
    /\ allArticles = <<>>
    /\ response = NoResponse

\* GetNewsBySource, the whole handler
GetNewsBySource ==
    /\ hpc = "idle"
    /\ \E sourceName \in SourceNames(build) \cup {UnknownSource} :
         IF sourceName \in DOMAIN active /\ active[sourceName]
         THEN \E in \in SiteInputs(sourceName) :
                LET r == FetchNewsFromSource(build, sourceName, in)
                IN  /\ news' = [news EXCEPT ![sourceName] = r]
                    /\ response' = NewsBySourceResponse(active, sourceName, r)
                    /\ request' = [op |-> "bySource", source |-> sourceName]
         ELSE /\ news' = news
              /\ response' = NewsBySourceResponse(active, sourceName, NoNews)
              /\ request' = [op |-> "bySource", source |-> sourceName]
    /\ hpc' = "done"
    /\ UNCHANGED <<build, scraperVars, active, remaining, task, wg, allNews,
                   closed, closer, allArticles>>

\* GetAllNews starts: var wg; allNews := make(chan []NewsArticle, len(ns.sources))
BeginGetAllNews ==
    /\ hpc = "idle"
    /\ hpc' = "launching"
    /\ request' = [op |-> "all", source |-> ""]
    /\ remaining' = DOMAIN active
    /\ UNCHANGED <<build, scraperVars, active, task, news, wg, allNews, closed,
                   closer, allArticles, response>>

\* launch loop on an inactive source: continue
LaunchSkipsInactive ==
    /\ hpc = "launching"
    /\ \E s \in remaining :
         /\ ~active[s]
         /\ remaining' = remaining \ {s}
    /\ UNCHANGED <<build, scraperVars, request, active, hpc, task, news, wg,
                   allNews, closed, closer, allArticles, response>>

\* launch loop on an active source: wg.Add(1); go func(...)
LaunchTask ==
    /\ hpc = "launching"
    /\ \E s \in remaining :
         /\ active[s]
         /\ remaining' = remaining \ {s}
         /\ task' = [task EXCEPT ![s] = "running"]
    /\ wg' = wg + 1
    /\ UNCHANGED <<build, scraperVars, request, active, hpc, news, allNews,
                   closed, closer, allArticles, response>>

\* the launch loop is over: go func() { wg.Wait(); close(allNews) }()
StartCloser ==
    /\ hpc = "launching"
    /\ remaining = {}
    /\ closer' = "waiting"
    /\ hpc' = "collecting"
    /\ UNCHANGED <<build, scraperVars, request, active, remaining, task, news,
                   wg, allNews, closed, allArticles, response>>

\* a scraper goroutine: news, err := ns.fetchNewsFromSource(sourceName, source.URL)
TaskFetches ==
    /\ \E s \in DOMAIN task :
         /\ task[s] = "running"
         /\ \E in \in SiteInputs(s) :
              news' = [news EXCEPT ![s] = FetchNewsFromSource(build, s, in)]
         /\ task' = [task EXCEPT ![s] = "sending"]
    /\ UNCHANGED <<build, scraperVars, request, active, hpc, remaining, wg,
                   allNews, closed, closer, allArticles, response>>

\* what the goroutine sends: []NewsArticle{} on error, news otherwise
Sent(r) == IF r.err THEN <<>> ELSE r.news

ChannelCapacity_OneShort(registry) == Cardinality(DOMAIN registry) - 1

\* capacity of the channel: len(ns.sources)
ChannelCapacity(registry) == Cardinality(DOMAIN registry)

\* a scraper goroutine: allNews <- ...; blocks while the buffer is full
TaskSends ==
    /\ \E s \in DOMAIN task :
         /\ task[s] = "sending"
         /\ ~closed
         /\ Len(allNews) < ChannelCapacity(active)
         /\ allNews' = Append(allNews, Sent(news[s]))
         /\ task' = [task EXCEPT ![s] = "sent"]
    /\ UNCHANGED <<build, scraperVars, request, active, hpc, remaining, news,
                   wg, closed, closer, allArticles, response>>

\* a scraper goroutine returns: defer wg.Done()
TaskDone ==
    /\ \E s \in DOMAIN task :
         /\ task[s] = "sent"
         /\ task' = [task EXCEPT ![s] = "done"]
    /\ wg' = wg - 1
    /\ UNCHANGED <<build, scraperVars, request, active, hpc, remaining, news,
                   allNews, closed, closer, allArticles, response>>

WaitReturns_AtOnce(counter) == TRUE

\* wg.Wait() returns when the counter is zero
WaitReturns(counter) == counter = 0

\* the closer goroutine: wg.Wait() returns; close(allNews)
CloseChannel ==
    /\ closer = "waiting"
    /\ WaitReturns(wg)
    /\ closed' = TRUE
    /\ closer' = "done"
    /\ UNCHANGED <<build, scraperVars, request, active, hpc, remaining, task,
                   news, wg, allNews, allArticles, response>>

Collect_Overwrite(collected, batch) == batch

\* allArticles = append(allArticles, news...)
Collect(collected, batch) == collected \o batch

\* collecting loop: for news := range allNews receives one batch
Receive ==
    /\ hpc = "collecting"
    /\ allNews # <<>>
    /\ allArticles' = Collect(allArticles, Head(allNews))
    /\ allNews' = Tail(allNews)
    /\ UNCHANGED <<build, scraperVars, request, active, hpc, remaining, task,
                   news, wg, closed, closer, response>>

\* the range loop ends on the closed, drained channel; c.JSON(http.StatusOK, response)
Respond ==
    /\ hpc = "collecting"
    /\ allNews = <<>>
    /\ closed
    /\ response' = NewsResponse(allArticles, "")
    /\ hpc' = "done"
    /\ UNCHANGED <<build, scraperVars, request, active, remaining, task, news,
                   wg, allNews, closed, closer, allArticles>>

HandlersNext ==
    \/ GetNewsBySource
    \/ BeginGetAllNews
    \/ LaunchSkipsInactive
    \/ LaunchTask
    \/ StartCloser
    \/ TaskFetches
    \/ TaskSends
    \/ TaskDone
    \/ CloseChannel
    \/ Receive
    \/ Respond

SpecHandlers == HandlersInit /\ [][HandlersNext]_vars

\* ------------------------------------------------------------------------
\* Properties of the handlers (checked under SpecHandlers)
\* ------------------------------------------------------------------------

\* GetAllNews has written its response
AllNewsResponded == request.op = "all" /\ response # NoResponse

\* the articles of one source in a list, in their order in the list
RECURSIVE OfSource(_, _)
OfSource(list, s) ==
    IF list = <<>> THEN <<>>
    ELSE IF Head(list).source = s
         THEN <<Head(list)>> \o OfSource(Tail(list), s)
         ELSE OfSource(Tail(list), s)

\* a launched scraper whose listing scrape failed / succeeded
ScrapeFailed(s) == active[s] /\ task[s] = "done" /\ news[s].err

ScrapeSucceeded(s) == active[s] /\ task[s] = "done" /\ ~news[s].err

\* C2: when the scrape of one active source fails and that of another
\* succeeds, GetAllNews still answers success (200) and the merged collection
\* is exactly the articles of the succeeding sources; the failed source
\* contributes nothing
PartialFailureStillSucceeds ==
    (/\ AllNewsResponded
     /\ \E s \in DOMAIN active : ScrapeFailed(s)
     /\ \E s \in DOMAIN active : ScrapeSucceeded(s)) =>
        /\ response.success
        /\ response.status = 200
        /\ response.error = ""
        /\ response.count = Len(response.data)
        /\ \A a \in DOMAIN response.data :
               ScrapeSucceeded(response.data[a].source)
        /\ \A s \in DOMAIN active :
               ScrapeSucceeded(s) => OfSource(response.data, s) = news[s].news

\* one source failed, the other returned two articles, and the failed
\* source's empty batch was the last one collected
PartialFailureStillSucceedsWitness ==
    /\ AllNewsResponded
    /\ \E s \in DOMAIN active : ScrapeFailed(s)
    /\ \E s \in DOMAIN active : ScrapeSucceeded(s) /\ Len(news[s].news) = 2
    /\ response.count = 2

\* number of articles the scrapers of a set of sources returned
RECURSIVE TotalNews(_)
TotalNews(S) ==
    IF S = {} THEN 0
    ELSE LET s == CHOOSE x \in S : TRUE
         IN  Len(Sent(news[s])) + TotalNews(S \ {s})

\* C3: GetAllNews writes its response only after every scraper goroutine it
\* launched has finished, one having been launched per active source and none
\* for an inactive one; the merged collection holds every source's articles
\* exactly once and in that source's own order
ResponseAfterAllTasks ==
    AllNewsResponded =>
        /\ \A s \in DOMAIN active :
               task[s] = IF active[s] THEN "done" ELSE "none"
        /\ wg = 0
        /\ closed
        /\ allNews = <<>>
        /\ \A s \in DOMAIN active :
               OfSource(response.data, s) =
                   IF active[s] THEN Sent(news[s]) ELSE <<>>
        /\ Len(response.data) = TotalNews({s \in DOMAIN active : active[s]})

\* both sources were scraped, each returned two articles, and CNN's batch was
\* merged before The Daily Star's
ResponseAfterAllTasksWitness ==
    /\ AllNewsResponded
    /\ \A s \in DOMAIN active : task[s] = "done" /\ Len(news[s].news) = 2
    /\ response.count = 4
    /\ response.data[1].source = "cnn"
    /\ response.data[4].source = "thedailystar"

MaxRejected == 1

\* containers the page may hold beyond the source's cap
MaxOverCap == 2

\* "Limit to 10 articles" / "Limit to 15 articles"
Cap(source) == IF source = "cnn" THEN CNNCap ELSE DailyStarCap

\* /news/bangladesh/2024/sss... and /2024/06/21/world/sss.../index.html: one
\* story link per k
FreshHref(source, k) ==
    IF source = "cnn"
    THEN <<"/", "2024", "/", "06", "/", "21", "/", "world", "/">>
             \o Rep("s", k) \o <<"/", "index.html">>
    ELSE <<"/", "news", "/", "bangladesh", "/", "2024", "/">> \o Rep("s", k)

\* the k-th story of the page: a valid container whose link and headline no
\* other story shares; every other Daily Star story comes without an image
Fresh(source, k) ==
    IF source = "cnn"
    THEN CNNContainer(FreshHref(source, k),
                      TextStorm \o <<" ">> \o Rep("x", k), <<>>)
    ELSE DSContainer(TextFlood \o <<" ">> \o Rep("x", k), <<>>,
                     FreshHref(source, k),
                     Img(IF k % 2 = 0 THEN <<>> ELSE ImgAbsolute, <<>>), <<>>,
                     TextSummary)

\* a container the callback rejects on its own: no headline text
Untitled(source) ==
    IF source = "cnn" THEN CNNContainer(HrefCNNCity, <<>>, <<>>)
    ELSE DSContainer(<<>>, <<>>, HrefStory, Img(ImgAbsolute, <<>>), <<>>,
                     TextSummary)

\* positions of s that do not hold the story of their position
Rejectable(source, s) == {k \in 1..Len(s) : s[k] # Fresh(source, k)}

\* what the next container of the page can be: the next story, or, up to
\* MaxRejected times, a repeat of the first story or an untitled container
CapCandidates(source, s) ==
    {Fresh(source, Len(s) + 1)}
        \cup (IF Cardinality(Rejectable(source, s)) < MaxRejected
              THEN {Fresh(source, 1), Untitled(source)} ELSE {})

\* the loop of the enrichment pass as a fold: the scrape calls it makes
PassFetched(bld, list, pages) ==
    LET F[k \in 0..Len(list)] ==
            IF k = 0 THEN <<>>
            ELSE IF NeedsDetails(bld, list[k])
            THEN Append(F[k - 1],
                        FetchRecord(k - 1, pages[k], ScrapeDetails(bld, pages[k])))
            ELSE F[k - 1]
    IN  F[Len(list)]

\* the same fold: the fetches and the sleeps, in order
PassLog(bld, list, pages) ==
    LET L[k \in 0..Len(list)] ==
            IF k = 0 THEN <<>>
            ELSE IF ~NeedsDetails(bld, list[k]) THEN L[k - 1]
            ELSE IF ScrapeDetails(bld, pages[k]).err
            THEN Append(L[k - 1], "fetch")
            ELSE L[k - 1] \o <<"fetch", "sleep">>
    IN  L[Len(list)]

\* colly calls the OnHTML callback on the next container of the long page
CapCallback ==
    /\ pc = "Crawling"
    /\ visited < Cap(src) + MaxOverCap
    /\ \E e \in CapCandidates(src, seen) :
         LET cur == [articles |-> articles, articleID |-> articleID]
             st  == OnHTML(src, cur, e)
         IN  /\ articles' = st.articles
             /\ articleID' = st.articleID
             /\ verdict' = Verdict(src, cur, e)
             /\ origin' = IF Verdict(src, cur, e) = "accept"
                          THEN Append(origin, e) ELSE origin
             /\ seen' = Append(seen, e)
    /\ visited' = visited + 1
    /\ UNCHANGED <<build, src, pc, idx, listed, log, entry, fetched,
                   handlerVars>>

\* c.Wait() returns and the enrichment pass runs to its end; every article
\* page of the site answers alike
CapEnrich ==
    /\ pc = "Crawling"
    /\ \E d \in DetailPages :
         LET pages == [k \in 1..Len(articles) |-> d]
         IN  /\ articles' = UpdateArticles(build, articles, pages)
             /\ fetched' = PassFetched(build, articles, pages)
             /\ log' = PassLog(build, articles, pages)
    /\ listed' = articles
    /\ idx' = Len(articles)
    /\ pc' = "Completed"
    /\ UNCHANGED <<build, src, articleID, visited, verdict, origin, seen, entry,
                   handlerVars>>

CapNext ==
    \/ VisitFails
    \/ VisitSucceeds
    \/ CapCallback
    \/ CapEnrich

SpecCap == Init /\ [][CapNext]_vars

\* the captured variables before the first callback
NoArticles == [articles |-> <<>>, articleID |-> 0]

\* the containers of s that the callback accepts when it meets them first
ValidCandidates(source, s) ==
    {e \in {s[k] : k \in 1..Len(s)} :
        Verdict(source, NoArticles, e) = "accept"}

\* the article the callback makes of container e when it meets it first
FirstArticle(source, e) == OnHTML(source, NoArticles, e).articles[1]

\* no two containers of the set share a link or a headline
MutuallyDistinct(source, set) ==
    /\ Cardinality({FirstArticle(source, e).url : e \in set}) = Cardinality(set)
    /\ Cardinality({FirstArticle(source, e).title : e \in set}) = Cardinality(set)

\* C11: the accepted list never holds more than the source's cap (10 for The
\* Daily Star, 15 for CNN); the list returned from a page with at least cap
\* valid, mutually distinct candidates holds exactly cap articles; and a
\* callback that runs once the cap is reached returns at the cap check and
\* leaves the accepted list as it is
CapRespected ==
    /\ [](/\ Len(articles) <= Cap(src)
          /\ (/\ Returned
              /\ MutuallyDistinct(src, ValidCandidates(src, seen))
              /\ Cardinality(ValidCandidates(src, seen)) >= Cap(src))
                 => Len(articles) = Cap(src))
    /\ [][(pc = "Crawling" /\ Len(articles) >= Cap(src) /\ visited' = visited + 1)
             => (articles' = articles /\ verdict' = "cap")]_vars

\* a crawl returned exactly cap articles from a page that held more than cap
\* valid, distinct stories and one rejected container; the last container was
\* turned away at the cap check
CapRespectedWitness ==
    /\ Returned
    /\ Len(articles) = Cap(src)
    /\ Cardinality(ValidCandidates(src, seen)) > Cap(src)
    /\ Rejectable(src, seen) # {}
    /\ verdict = "cap"

\* ------------------------------------------------------------------------
\* Image and description extraction
\* ------------------------------------------------------------------------

\* the first URL of a srcset-style candidate list "url1 1x, url2 2x"
SrcsetFirstURL(srcset) == Head(Fields(Head(Split(srcset, ","))))

\* the entry page of a source
BaseURL(source) == IF source = "cnn" THEN CNNURL ELSE DailyStarURL

\* the value of the attribute on the first matched element that carries it
\* with a non-empty value; <<>> when there is none
RECURSIVE FirstValue(_)
FirstValue(elems) ==
    IF elems = <<>> THEN <<>>
    ELSE IF Head(elems).exists /\ Head(elems).val # <<>> THEN Head(elems).val
    ELSE FirstValue(Tail(elems))

\* C12: an article extracted from a listing container whose img carries both a
\* non-empty data-srcset and a non-empty src has the first URL of data-srcset,
\* resolved, as its image URL; and a detail page whose picture img carries a
\* non-empty data-srcset yields the first URL of that data-srcset
SrcsetPreferred ==
    /\ \A k \in 1..Len(articles) :
           (/\ src = "thedailystar"
            /\ origin[k].img["src"] # <<>>
            /\ origin[k].img["data-srcset"] # <<>>)
               => articles[k].imageURL =
                      AbsoluteURL(BaseURL(src),
                                  SrcsetFirstURL(origin[k].img["data-srcset"]))
    /\ \A j \in 1..Len(fetched) :
           (/\ fetched[j].page.ok
            /\ FirstValue(fetched[j].page.doc.pictureImg) # <<>>)
               => LET first ==
                          SrcsetFirstURL(
                              FirstValue(fetched[j].page.doc.pictureImg))
                  IN  fetched[j].r.imageURL
                          \in {first, AbsoluteURL(BaseURL(src), first)}

\* C13: every description, as listing extraction produced it and as the
\* enrichment pass left it, is empty or at most 203 characters long (200
\* characters and "...")
DescriptionBounded ==
    /\ \A k \in 1..Len(articles) : Len(articles[k].description) <= DescCap + 3
    /\ \A k \in 1..Len(listed) : Len(listed[k].description) <= DescCap + 3

\* the returned list holds an article that came out of the listing without a
\* description and got one of 203 characters from its own page
DescriptionBoundedWitness ==
    /\ Returned
    /\ \E k \in 1..Len(articles) :
           /\ listed[k].description = <<>>
           /\ Len(articles[k].description) = DescCap + 3

\* ------------------------------------------------------------------------
\* Failure of the entry page, and article ids
\* ------------------------------------------------------------------------

\* C14: when the fetch of the entry page fails the scraper is in Failed: it
\* returned the error, it holds no article, no callback ran and the
\* enrichment pass made no fetch and no pause
EntryFailureFails ==
    entry = "error" =>
        /\ pc = "Failed"
        /\ articles = <<>>
        /\ listed = <<>>
        /\ visited = 0
        /\ idx = 0
        /\ log = <<>>
        /\ fetched = <<>>

\* c.Visit returned an error and the scraper returned it
EntryFailureFailsWitness == entry = "error" /\ pc = "Failed"

\* C15: no two articles of a crawl share an id, and the id of the k-th article
\* is the value of its source field joined with k - 1
IdFromSourceName ==
    /\ \A j, k \in 1..Len(articles) :
           articles[j].id = articles[k].id => j = k
    /\ \A k \in 1..Len(articles) :
           articles[k].id = FormatID(articles[k].source, k - 1)

\* ------------------------------------------------------------------------
\* The course of the enrichment pass
\* ------------------------------------------------------------------------

\* an article lacks a field the pass can recover
LacksField(article) == article.imageURL = <<>> \/ article.description = <<>>

\* article old with its empty fields filled in from the scrape result r
Filled(old, r) ==
    [old EXCEPT !.imageURL = IF old.imageURL = <<>> THEN r.imageURL
                             ELSE old.imageURL,
                !.description = IF old.description = <<>> THEN r.description
                                ELSE old.description]

\* C16: when the scrape for one article failed, the pass left that article as
\* the listing produced it, and every later article of the list that lacked an
\* image URL or a description was still fetched and, when its scrape
\* succeeded, merged
FailureDoesNotStopPass ==
    Returned =>
        \A j \in 1..Len(fetched) :
            fetched[j].r.err =>
                /\ articles[fetched[j].i + 1] = listed[fetched[j].i + 1]
                /\ \A k \in (fetched[j].i + 2)..Len(listed) :
                       LacksField(listed[k]) =>
                           \E m \in 1..Len(fetched) :
                               /\ fetched[m].i = k - 1
                               /\ ~fetched[m].r.err =>
                                      articles[k] = Filled(listed[k], fetched[m].r)

\* C17: the pass makes no fetch and no pause before the crawl has handed over
\* its list, and no callback runs once it has; the fetches are made one per
\* step, at the article the loop stands on, in list order and only for
\* articles that lack an image URL or a description; and the scraper is
\* Completed only with the loop past the last article
SequentialEnrichment ==
    /\ [](/\ pc \in {"Idle", "Crawling", "Failed"} =>
                fetched = <<>> /\ log = <<>> /\ idx = 0
          /\ pc \in {"Enriching", "Sleeping", "Completed"} =>
                Len(listed) = Len(articles) /\ idx <= Len(articles)
          /\ \A j \in 1..Len(fetched) :
                /\ fetched[j].i < Len(listed)
                /\ LacksField(listed[fetched[j].i + 1])
                /\ fetched[j].i <= idx
                /\ j < Len(fetched) => fetched[j].i < fetched[j + 1].i
          /\ pc = "Sleeping" =>
                fetched # <<>> /\ fetched[Len(fetched)].i = idx
          /\ pc = "Completed" => idx = Len(articles))
    /\ [][/\ pc \in {"Enriching", "Sleeping", "Completed"} =>
                /\ visited' = visited
                /\ seen' = seen
                /\ listed' = listed
                /\ idx' \in {idx, idx + 1}
          /\ fetched' # fetched =>
                /\ pc = "Enriching"
                /\ fetched' = Append(fetched, fetched'[Len(fetched')])
                /\ fetched'[Len(fetched')].i = idx
                /\ LacksField(articles[idx + 1])]_vars

\* the scraper completed over two articles: the first was left alone, the page
\* of the second was fetched
SequentialEnrichmentWitness ==
    /\ pc = "Completed"
    /\ Len(articles) = 2
    /\ ~LacksField(listed[1])
    /\ Len(fetched) = 1
    /\ fetched[1].i = 1

\* ------------------------------------------------------------------------
\* Specification SpecDetail: one call of the detail-page scraper of the build
\* ------------------------------------------------------------------------

\* what doc.Find can match for each selector of the image chain
PictureImgCases == {<<>>, <<Attr(<<>>)>>, <<NoAttr, Attr(ImgSrcset)>>}

GalleryCases == {<<>>, <<Attr(<<>>)>>, <<Attr(ImgRelative)>>}

OgImageCases == {<<>>, <<Attr(<<>>)>>, <<Attr(ImgOg)>>}

BodyImgCases == {<<>>, <<Attr(<<>>), Attr(ImgAbsolute)>>}

\* and for each selector of the description chain
OgDescriptionCases == {<<>>, <<Attr(<<" ">>)>>, <<Attr(TextOgDesc)>>}

MetaDescriptionCases == {<<>>, <<Attr(<<>>)>>, <<Attr(TextLong)>>}

ParagraphCases == {<<>>, <<TextSummary, TextParagraph>>}

DetailDocs ==
    {[pictureImg |-> a, gallery |-> b, ogImage |-> c, bodyImg |-> d,
      ogDescription |-> e, metaDescription |-> f, paragraphs |-> g] :
        a \in PictureImgCases, b \in GalleryCases, c \in OgImageCases,
        d \in BodyImgCases, e \in OgDescriptionCases,
        f \in MetaDescriptionCases, g \in ParagraphCases}

\* scrapeImageFromURL(url) / scrapeArticleDetailsFromURL(url) is called once
ScrapePage ==
    /\ pc = "Idle"
    /\ fetched = <<>>
    /\ \E page \in {FetchFailed} \cup {Fetched(doc) : doc \in DetailDocs} :
         fetched' = <<FetchRecord(0, page, ScrapeDetails(build, page))>>
    /\ UNCHANGED <<build, src, pc, articles, articleID, visited, verdict, idx,
                   listed, origin, log, seen, entry, handlerVars>>

DetailNext == ScrapePage

SpecDetail == Init /\ [][DetailNext]_vars

\* the first non-empty entry of a list of candidates; <<>> when all are empty
RECURSIVE FirstNonEmpty(_)
FirstNonEmpty(candidates) ==
    IF candidates = <<>> THEN <<>>
    ELSE IF Head(candidates) # <<>> THEN Head(candidates)
    ELSE FirstNonEmpty(Tail(candidates))

\* the trimmed content of the first matched meta element whose content is not
\* blank
FirstContent(elems) ==
    FirstNonEmpty([k \in 1..Len(elems) |->
                      IF elems[k].exists THEN TrimSpace(elems[k].val) ELSE <<>>])

\* the first paragraph longer than 50 characters, trimmed
FirstLongParagraph(paras) ==
    FirstNonEmpty([k \in 1..Len(paras) |->
                      IF Len(TrimSpace(paras[k])) > MinParagraphLen
                      THEN TrimSpace(paras[k]) ELSE <<>>])

HandlerSteps ==
    LaunchSkipsInactive \/ LaunchTask \/ StartCloser \/ Receive \/ Respond

\* a scraper goroutine after its fetches have returned
TaskSteps == TaskSends \/ TaskDone

\* Every runnable goroutine is scheduled eventually, and every fetch returns
\* (colly's collector has its default request timeout, the http.Client of the
\* detail scrapers a Timeout of 10 s), so fetchNewsFromSource returns.  The
\* arrival of a request is not forced.
SpecHandlersFair ==
    /\ HandlersInit
    /\ [][HandlersNext]_vars
    /\ WF_vars(HandlerSteps)
    /\ WF_vars(TaskFetches)
    /\ WF_vars(TaskSteps)
    /\ WF_vars(CloseChannel)

\* C19: a scraper goroutine that is about to send finds the channel open and
\* with room, the channel never holding more than one batch per source; the
\* channel is closed once, by the closer alone, after the launch loop is over
\* and every launched goroutine has sent and returned; and a GetAllNews request
\* leads to its response, the collecting loop having ended
AllNewsTerminates ==
    /\ [](/\ Len(allNews) <= Cardinality(DOMAIN active)
          /\ \A s \in DOMAIN task :
                task[s] = "sending" =>
                    ~closed /\ Len(allNews) < ChannelCapacity(active)
          /\ closed <=> closer = "done")
    /\ [][closed' # closed =>
             /\ ~closed
             /\ closer = "waiting"
             /\ remaining = {}
             /\ \A s \in DOMAIN task :
                    task[s] = IF active[s] THEN "done" ELSE "none"]_vars
    /\ (hpc = "launching") ~> (AllNewsResponded /\ hpc = "done")

\* GetAllNews over two active sources has answered: both goroutines sent, the
\* channel was closed and drained
AllNewsTerminatesWitness ==
    /\ AllNewsResponded
    /\ hpc = "done"
    /\ Cardinality(DOMAIN active) = 2
    /\ \A s \in DOMAIN active : active[s] /\ task[s] = "done"
    /\ closed
    /\ allNews = <<>>

====
